---- MODULE Spec2Model ----
(***************************************************************************)
(* Position-risk auto-exit engine (services/management_service.py) and the *)
(* rule store it works on (database/management_db.py).                     *)
(*                                                                         *)
(* Representation                                                          *)
(*   - a Python value that may be missing or non-numeric is a record       *)
(*     [k, v]: k = "num" (v is the number), k = "none" (None / key absent) *)
(*     or k = "bad" (a value float() rejects);                             *)
(*   - a symbol is a sequence of characters, so that str.startswith is a   *)
(*     real prefix test; a product is one token without an underscore;     *)
(*   - quantities are counted in 1/QtyScale shares, so that int() really   *)
(*     truncates; prices are whole numbers, P&L and the thresholds are in  *)
(*     price units times 1/QtyScale share.                                 *)
(***************************************************************************)
EXTENDS Integers, Sequences, FiniteSets, TLC

VARIABLES
    store,      \* management_rules table: rule id -> row
    nextId,     \* next primary key the table hands out
    cache,      \* ohlcv_cache: symbol -> (field -> number)
    pc,         \* position of the management thread
    market,     \* management_loop: current_market_status of this iteration
    sess,       \* state of the ORM objects check_rules loaded: [attached, expired]
    rules,      \* check_rules: rules_by_user.items(), a sequence of [user, rules]
    ui,         \* check_rules: index in rules of the user being processed
    ri,         \* check_rules: index of the next rule of that user to evaluate
    cur,        \* check_rules: [user, api_key, pmap], the positions last fetched
    orders,     \* history: the place_order calls of the current cycle
    evals,      \* history: the rule evaluations made for the current user
    evaluated,  \* history: ids of the rules whose evaluation began this cycle
    fetches,    \* history: the users whose positions were fetched this cycle
    okCount,    \* history: per rule id, place_order calls that returned (capped)
    threw,      \* history: ids of the rules whose place_order calls all threw in the
                \* last cycle that ended
    failed,     \* history: the users whose position fetch failed this cycle
    unfetched,  \* history: the users whose position fetch failed in the last cycle
                \* that ended
    feed,       \* messages published and not yet received by the SUB socket
    got,        \* history: the messages received since the loop's last iteration began
    probe       \* calculate_pnl applied on its own: [arg, qty, out]

vars == <<store, nextId, cache, pc, market, sess, rules, ui, ri, cur, orders, evals,
          evaluated, fetches, okCount, threw, failed, unfetched, feed, got, probe>>

----------------------------------------------------------------------------
(* Bounds of the model *)

MaxPos == 2         \* positions in one get_positionbook response
MaxRuleId == 2      \* primary keys the rule table hands out
MaxOk == 2          \* cap of the okCount history counter
MaxFeed == 2        \* messages process_market_data is applied to in a row

QtyScale == 2       \* quantities are in 1/QtyScale shares

----------------------------------------------------------------------------
(* Values *)

Num(n) == [k |-> "num", v |-> n]
NoneV == [k |-> "none", v |-> 0]
BadV == [k |-> "bad", v |-> 0]

Abs(n) == IF n < 0 THEN -n ELSE n

\* Python truthiness of a nullable Float column: None and 0.0 are falsy.
Truthy(x) == x.k = "num" /\ x.v # 0

\* str.startswith
StartsWith(s, p) == Len(p) <= Len(s) /\ SubSeq(s, 1, Len(p)) = p

\* Rounding towards minus infinity instead
IntTrunc_floor(q) == q \div QtyScale

\* int(x) of a float: truncation towards zero, in whole shares.
IntTrunc(q) == IF q >= 0 THEN q \div QtyScale ELSE -((-q) \div QtyScale)

----------------------------------------------------------------------------
(* get_net_qty, calculate_pnl *)

QtyKeys == <<"quantity", "netqty", "net_qty", "qty">>

RECURSIVE NetQtyFrom(_, _)
NetQtyFrom(p, i) ==
    IF i > Len(QtyKeys) THEN 0
    ELSE IF p[QtyKeys[i]].k = "num" THEN p[QtyKeys[i]].v
    ELSE NetQtyFrom(p, i + 1)

get_net_qty(p) == NetQtyFrom(p, 1)

HasLtp(c, symbol) == symbol \in DOMAIN c /\ "ltp" \in DOMAIN c[symbol]

\* calculate_pnl without the recomputation from the quote cache
calculate_pnl_no_cache(c, pos) == IF pos.pnl.k = "num" THEN pos.pnl.v ELSE 0

calculate_pnl(c, pos) ==
    LET api == IF pos.pnl.k = "num" THEN pos.pnl.v ELSE 0
        q == get_net_qty(pos)
    IN  IF HasLtp(c, pos.symbol) /\ pos.netavgprc.k = "num"
        THEN LET ltp == c[pos.symbol]["ltp"]
                 avg == pos.netavgprc.v
             IN  IF q > 0 THEN (ltp - avg) * q
                 ELSE IF q < 0 THEN (avg - ltp) * Abs(q)
                 ELSE api
        ELSE api

----------------------------------------------------------------------------
(* Rule store and ORM session (database/management_db.py) *)

\* db_session is a scoped_session: db_session() hands the thread its one Session,
\* so the Session execute_exit obtains is the Session check_rules loaded the
\* cycle's rule objects in.  sess describes those objects: attached (they are in
\* that Session's identity map) and expired (their attributes are unloaded).
\* commit() expires every object of the Session, close() detaches them all; an
\* expired, detached object raises DetachedInstanceError on any attribute read.
Loaded == [attached |-> TRUE, expired |-> FALSE]
NoObjects == [attached |-> FALSE, expired |-> FALSE]

\* The Session db_session() returns, seen from the cycle's rule objects.
db_session(s) == s

session_commit(s) == [s EXCEPT !.expired = s.attached \/ s.expired]
session_close(s) == [s EXCEPT !.attached = FALSE]

\* Reading a column of a rule object of the cycle raises.
Detached(s) == s.expired /\ ~s.attached

\* session.query(ManagementRule).filter_by(is_active=True).all(), in primary key order
RECURSIVE ActiveRulesFrom(_, _)
ActiveRulesFrom(st, i) ==
    IF i > MaxRuleId THEN <<>>
    ELSE (IF i \in DOMAIN st /\ st[i].is_active THEN <<st[i]>> ELSE <<>>)
         \o ActiveRulesFrom(st, i + 1)

\* The query without its is_active filter
list_active_rules_all(st) ==
    LET RECURSIVE All(_)
        All(i) == IF i > MaxRuleId THEN <<>>
                  ELSE (IF i \in DOMAIN st THEN <<st[i]>> ELSE <<>>) \o All(i + 1)
    IN  All(1)

list_active_rules(st) == ActiveRulesFrom(st, 1)

----------------------------------------------------------------------------
(* execute_exit *)

ExitPayload(rule, position, api_key) ==
    LET net_qty == get_net_qty(position)
    IN  [apikey |-> api_key,
         symbol |-> rule.symbol,
         exchange |-> rule.exchange,
         product |-> rule.product,
         quantity |-> Abs(IntTrunc(net_qty)),
         disclosed_quantity |-> 0,
         price |-> 0,
         trigger_price |-> 0,
         pricetype |-> "MARKET",
         action |-> IF net_qty > 0 THEN "SELL" ELSE "BUY",
         tag |-> "MANAGEMENT_EXIT"]

\* Lines 312-318 without the write of is_active
DeactivateRule_no_write(ctx, id) ==
    [ctx EXCEPT !.sess = session_close(db_session(ctx.sess))]

\* Lines 312-318 with session.delete(r) in place of r.is_active = False
DeactivateRule_delete_row(ctx, id) ==
    LET s0 == db_session(ctx.sess)
        found == id \in DOMAIN ctx.store
        s1 == IF found THEN session_commit(s0) ELSE s0
    IN  [ctx EXCEPT !.store = [k \in DOMAIN @ \ {id} |-> @[k]],
                    !.sess = session_close(s1)]

\* Lines 312-318: the read-modify-write that clears is_active.
DeactivateRule(ctx, id) ==
    LET s0 == db_session(ctx.sess)
        found == id \in DOMAIN ctx.store
        s1 == IF found THEN session_commit(s0) ELSE s0
    IN  [ctx EXCEPT !.store = IF found THEN [@ EXCEPT ![id].is_active = FALSE] ELSE @,
                    !.sess = session_close(s1)]

\* outcome: what place_order does, "returns" (accepted or rejected) or "throws".
execute_exit(ctx, rule, position, api_key, reason, outcome) ==
    IF Detached(ctx.sess)
    THEN ctx    \* rule.symbol (line 291) raises, caught at line 320
    ELSE LET call == [rule |-> rule.id,
                      position |-> position,
                      payload |-> ExitPayload(rule, position, api_key),
                      reason |-> reason,
                      outcome |-> outcome]
             placed == [ctx EXCEPT !.orders = Append(@, call)]
         IN  IF outcome = "throws" THEN placed
             ELSE DeactivateRule(placed, rule.id)

RECURSIVE ExitEach(_, _, _, _, _, _, _)
ExitEach(ctx, rule, matching, api_key, reason, outs, i) ==
    IF i > Len(matching) THEN ctx
    ELSE ExitEach(execute_exit(ctx, rule, matching[i], api_key, reason, outs[i]),
                  rule, matching, api_key, reason, outs, i + 1)

----------------------------------------------------------------------------
(* check_rules: the evaluation of one rule (lines 204-271) *)

\* Key of positions_map: f"{symbol}_{product}"
PosKey(symbol, product) == symbol \o <<"_", product>>

\* The dict comprehension of line 202: a key keeps the place of its first
\* occurrence and the value of its last.
RECURSIVE PositionsMapFrom(_, _, _)
PositionsMapFrom(data, i, acc) ==
    IF i > Len(data) THEN acc
    ELSE LET p == data[i]
             hit == {j \in 1..Len(acc) :
                        PosKey(acc[j].symbol, acc[j].product) = PosKey(p.symbol, p.product)}
         IN  IF hit = {} THEN PositionsMapFrom(data, i + 1, Append(acc, p))
             ELSE PositionsMapFrom(data, i + 1,
                                   [j \in 1..Len(acc) |-> IF j \in hit THEN p ELSE acc[j]])

PositionsMap(data) == PositionsMapFrom(data, 1, <<>>)

\* positions_map.get(pos_key): the positions under that key (none or one)
MapGet(pmap, key) == SelectSeq(pmap, LAMBDA p : PosKey(p.symbol, p.product) = key)

RECURSIVE SumPnl(_, _, _)
SumPnl(c, ps, i) == IF i > Len(ps) THEN 0 ELSE calculate_pnl(c, ps[i]) + SumPnl(c, ps, i + 1)

\* The match without the product test
GroupMatches_any_product(rule, p) ==
    /\ StartsWith(p.symbol, rule.symbol)
    /\ get_net_qty(p) # 0

GroupMatches(rule, p) ==
    /\ StartsWith(p.symbol, rule.symbol)
    /\ p.product = rule.product
    /\ get_net_qty(p) # 0

TargetHit(rule, pnl) == Truthy(rule.target_profit) /\ pnl >= rule.target_profit.v

IndividualLossHit(rule, pnl) ==
    /\ rule.exit_type \in {"TOTAL_LOSS", "BOTH"}
    /\ Truthy(rule.max_loss)
    /\ pnl < 0
    /\ Abs(pnl) >= rule.max_loss.v

GroupLossHit(rule, pnl) == Truthy(rule.max_loss) /\ pnl <= -Abs(rule.max_loss.v)

Logged(ctx, rule, matching, pnl, reason) ==
    [ctx EXCEPT !.evals = Append(@, [rule |-> rule.id, matched |-> matching,
                                     pnl |-> pnl, reason |-> reason])]

\* Lines 207-233.  A result with skipped = TRUE took a `continue`.
GroupRule(ctx, rule, pmap, api_key, c, outs) ==
    LET matching_positions == SelectSeq(pmap, LAMBDA p : GroupMatches(rule, p))
        group_pnl == SumPnl(c, matching_positions, 1)
    IN  IF matching_positions = <<>>
        THEN [Logged(ctx, rule, <<>>, 0, "skip") EXCEPT !.skipped = TRUE]
        ELSE IF TargetHit(rule, group_pnl)
        THEN ExitEach(Logged(ctx, rule, matching_positions, group_pnl, "target"), rule,
                      matching_positions, api_key, <<"Group Target Profit: ", group_pnl>>,
                      outs, 1)
        ELSE IF GroupLossHit(rule, group_pnl)
        THEN ExitEach(Logged(ctx, rule, matching_positions, group_pnl, "loss"), rule,
                      matching_positions, api_key, <<"Group Max Loss: ", group_pnl>>,
                      outs, 1)
        ELSE Logged(ctx, rule, matching_positions, group_pnl, "none")

\* Lines 236-260 with the loss comparison made first
IndividualRule_loss_first(ctx, rule, pmap, api_key, c, outs) ==
    LET found == MapGet(pmap, PosKey(rule.symbol, rule.product))
    IN  IF found = <<>> \/ get_net_qty(found[1]) = 0
        THEN [Logged(ctx, rule, <<>>, 0, "skip") EXCEPT !.skipped = TRUE]
        ELSE LET pos == found[1]
                 pnl == calculate_pnl(c, pos)
             IN  IF IndividualLossHit(rule, pnl)
                 THEN execute_exit(Logged(ctx, rule, found, pnl, "loss"), rule, pos,
                                   api_key, <<"Max Loss Triggered">>, outs[1])
                 ELSE IF TargetHit(rule, pnl)
                 THEN execute_exit(Logged(ctx, rule, found, pnl, "target"), rule, pos,
                                   api_key, <<"Target Profit Triggered">>, outs[1])
                 ELSE Logged(ctx, rule, found, pnl, "none")

\* Lines 236-260 without the test of line 244 for a flat position
IndividualRule_no_flat_test(ctx, rule, pmap, api_key, c, outs) ==
    LET found == MapGet(pmap, PosKey(rule.symbol, rule.product))
    IN  IF found = <<>>
        THEN [Logged(ctx, rule, <<>>, 0, "skip") EXCEPT !.skipped = TRUE]
        ELSE LET pos == found[1]
                 pnl == calculate_pnl(c, pos)
             IN  IF TargetHit(rule, pnl)
                 THEN execute_exit(Logged(ctx, rule, found, pnl, "target"), rule, pos,
                                   api_key, <<"Target Profit Triggered">>, outs[1])
                 ELSE IF IndividualLossHit(rule, pnl)
                 THEN execute_exit(Logged(ctx, rule, found, pnl, "loss"), rule, pos,
                                   api_key, <<"Max Loss Triggered">>, outs[1])
                 ELSE Logged(ctx, rule, found, pnl, "none")

\* Lines 236-260.
IndividualRule(ctx, rule, pmap, api_key, c, outs) ==
    LET found == MapGet(pmap, PosKey(rule.symbol, rule.product))
    IN  IF found = <<>> \/ get_net_qty(found[1]) = 0
        THEN [Logged(ctx, rule, <<>>, 0, "skip") EXCEPT !.skipped = TRUE]
        ELSE LET pos == found[1]
                 pnl == calculate_pnl(c, pos)
             IN  IF TargetHit(rule, pnl)
                 THEN execute_exit(Logged(ctx, rule, found, pnl, "target"), rule, pos,
                                   api_key, <<"Target Profit Triggered">>, outs[1])
                 ELSE IF IndividualLossHit(rule, pnl)
                 THEN execute_exit(Logged(ctx, rule, found, pnl, "loss"), rule, pos,
                                   api_key, <<"Max Loss Triggered">>, outs[1])
                 ELSE Logged(ctx, rule, found, pnl, "none")

\* The loop body of line 204 with the candle check of lines 263-268 acting: an
\* exit for the first position of the book when nothing else fired
EvalRule_candle_exits(ctx, rule, pmap, api_key, c, outs) ==
    IF Detached(ctx.sess)
    THEN [ctx EXCEPT !.escaped = TRUE]
    ELSE LET body == IF rule.is_group_rule
                     THEN GroupRule(ctx, rule, pmap, api_key, c, outs)
                     ELSE IndividualRule(ctx, rule, pmap, api_key, c, outs)
             acted == IF /\ ~Detached(body.sess)
                         /\ rule.exit_type \in {"CANDLE_CLOSE", "BOTH"}
                         /\ body.orders = ctx.orders
                         /\ pmap # <<>>
                      THEN execute_exit(body, rule, pmap[1], api_key, <<"Candle Close">>,
                                        outs[1])
                      ELSE body
         IN  IF body.skipped THEN body
             ELSE IF Detached(acted.sess)
             THEN [acted EXCEPT !.escaped = TRUE]
             ELSE acted

\* One pass of the loop body of line 204 for `rule`.  ctx.escaped: an exception
\* left the handler of line 270 (logging rule.id of a detached object raises in
\* the handler itself) and reached the user's handler of line 273.
EvalRule(ctx, rule, pmap, api_key, c, outs) ==
    IF Detached(ctx.sess)
    THEN [ctx EXCEPT !.escaped = TRUE]          \* rule.is_group_rule, line 207
    ELSE LET body == IF rule.is_group_rule
                     THEN GroupRule(ctx, rule, pmap, api_key, c, outs)
                     ELSE IndividualRule(ctx, rule, pmap, api_key, c, outs)
         IN  IF body.skipped THEN body
             ELSE IF Detached(body.sess)
             THEN [body EXCEPT !.escaped = TRUE]  \* rule.exit_type, line 263
             ELSE body                            \* candle close: pass

NewCtx(st, s) ==
    [store |-> st, sess |-> s, orders |-> <<>>, evals |-> <<>>,
     skipped |-> FALSE, escaped |-> FALSE]

\* Lines 184-188: rules_by_user, users in order of first appearance.
RECURSIVE GroupByUser(_, _, _)
GroupByUser(rs, i, acc) ==
    IF i > Len(rs) THEN acc
    ELSE LET r == rs[i]
             hit == {j \in 1..Len(acc) : acc[j].user = r.user_id}
         IN  IF hit = {}
             THEN GroupByUser(rs, i + 1, Append(acc, [user |-> r.user_id, rules |-> <<r>>]))
             ELSE GroupByUser(rs, i + 1,
                     [j \in 1..Len(acc) |->
                         IF j \in hit THEN [acc[j] EXCEPT !.rules = Append(@, r)] ELSE acc[j]])

----------------------------------------------------------------------------
(* is_market_open (lines 20-38) *)

\* now: [weekday |-> 0..6 (Monday = 0), second |-> second of the day, raises |-> BOOLEAN]
SecondOf(h, m, sec) == (h * 60 + m) * 60 + sec

\* is_market_open with the closing minute left out of the session
is_market_open_end_excluded(now) ==
    IF now.raises THEN TRUE
    ELSE IF now.weekday > 4 THEN FALSE
    ELSE SecondOf(9, 15, 0) <= now.second /\ now.second < SecondOf(15, 30, 0)

is_market_open(now) ==
    IF now.raises THEN TRUE
    ELSE IF now.weekday > 4 THEN FALSE
    ELSE SecondOf(9, 15, 0) <= now.second /\ now.second <= SecondOf(15, 30, 0)

----------------------------------------------------------------------------
(* process_market_data (lines 147-174) *)

Fields == <<"ltp", "open", "high", "low", "close", "volume">>

\* str.split('_')
RECURSIVE SplitFrom(_, _, _, _)
SplitFrom(t, i, part, acc) ==
    IF i > Len(t) THEN Append(acc, part)
    ELSE IF t[i] = "_" THEN SplitFrom(t, i + 1, <<>>, Append(acc, part))
    ELSE SplitFrom(t, i + 1, Append(part, t[i]), acc)

Split(t) == SplitFrom(t, 1, <<>>, <<>>)

\* The field stores of lines 166-171, in order; float() raising ends them.
RECURSIVE StoreFields(_, _, _)
StoreFields(entry, data, i) ==
    IF i > Len(Fields) THEN entry
    ELSE LET f == Fields[i]
         IN  IF f \notin DOMAIN data THEN StoreFields(entry, data, i + 1)
             ELSE IF data[f].k # "num" THEN entry
             ELSE StoreFields([g \in DOMAIN entry \cup {f} |->
                                  IF g = f THEN data[f].v ELSE entry[g]], data, i + 1)

EmptyEntry == [g \in {} |-> 0]

\* process_market_data building the entry from the message alone
process_market_data_replace(c, msg) ==
    IF ~msg.decodes THEN c
    ELSE LET parts == Split(msg.topic)
             given == IF "symbol" \in DOMAIN msg.data THEN msg.data["symbol"] ELSE <<>>
             symbol == IF given # <<>> THEN given
                       ELSE IF Len(parts) >= 3 THEN parts[Len(parts) - 1] ELSE <<>>
         IN  IF symbol = <<>> THEN c
             ELSE LET new == StoreFields(EmptyEntry,
                                         [f \in DOMAIN msg.data \ {"symbol"} |-> msg.data[f]], 1)
                  IN  [s \in DOMAIN c \cup {symbol} |-> IF s = symbol THEN new ELSE c[s]]

\* process_market_data dropping the cache when a message does not decode
process_market_data_reset_on_error(c, msg) ==
    IF ~msg.decodes THEN [s \in {} |-> EmptyEntry]
    ELSE LET parts == Split(msg.topic)
             given == IF "symbol" \in DOMAIN msg.data THEN msg.data["symbol"] ELSE <<>>
             symbol == IF given # <<>> THEN given
                       ELSE IF Len(parts) >= 3 THEN parts[Len(parts) - 1] ELSE <<>>
         IN  IF symbol = <<>> THEN c
             ELSE LET old == IF symbol \in DOMAIN c THEN c[symbol] ELSE EmptyEntry
                      new == StoreFields(old, [f \in DOMAIN msg.data \ {"symbol"} |-> msg.data[f]], 1)
                  IN  [s \in DOMAIN c \cup {symbol} |-> IF s = symbol THEN new ELSE c[s]]

\* process_market_data taking the symbol from the topic first
process_market_data_topic_first(c, msg) ==
    IF ~msg.decodes THEN c
    ELSE LET parts == Split(msg.topic)
             given == IF "symbol" \in DOMAIN msg.data THEN msg.data["symbol"] ELSE <<>>
             symbol == IF Len(parts) >= 3 THEN parts[Len(parts) - 1] ELSE given
         IN  IF symbol = <<>> THEN c
             ELSE LET old == IF symbol \in DOMAIN c THEN c[symbol] ELSE EmptyEntry
                      new == StoreFields(old, [f \in DOMAIN msg.data \ {"symbol"} |-> msg.data[f]], 1)
                  IN  [s \in DOMAIN c \cup {symbol} |-> IF s = symbol THEN new ELSE c[s]]

\* msg: [decodes |-> BOOLEAN, topic |-> characters, data |-> key -> value]
process_market_data(c, msg) ==
    IF ~msg.decodes THEN c
    ELSE LET parts == Split(msg.topic)
             given == IF "symbol" \in DOMAIN msg.data THEN msg.data["symbol"] ELSE <<>>
             symbol == IF given # <<>> THEN given
                       ELSE IF Len(parts) >= 3 THEN parts[Len(parts) - 1] ELSE <<>>
         IN  IF symbol = <<>> THEN c
             ELSE LET old == IF symbol \in DOMAIN c THEN c[symbol] ELSE EmptyEntry
                      new == StoreFields(old, [f \in DOMAIN msg.data \ {"symbol"} |-> msg.data[f]], 1)
                  IN  [s \in DOMAIN c \cup {symbol} |-> IF s = symbol THEN new ELSE c[s]]

----------------------------------------------------------------------------
(* Inputs of the engine *)

Users == {"u1", "u2"}
SymN == <<"N">>
SymNF == <<"N", "F">>
SymB == <<"B">>

Pos(symbol, product, quantity, netavgprc, pnl) ==
    [symbol |-> symbol, product |-> product, quantity |-> quantity, netqty |-> NoneV,
     net_qty |-> NoneV, qty |-> NoneV, netavgprc |-> netavgprc, pnl |-> pnl]

Rule(user_id, symbol, product, exit_type, max_loss, target_profit, is_group_rule) ==
    [id |-> 0, user_id |-> user_id, symbol |-> symbol, exchange |-> "NFO",
     product |-> product, exit_type |-> exit_type, max_loss |-> max_loss,
     target_profit |-> target_profit, is_group_rule |-> is_group_rule, is_active |-> TRUE]

\* Sequences over S of length 0..n
SeqsUpTo(S, n) == UNION {[1..m -> S] : m \in 0..n}

Outcomes == {"returns", "throws"}

\* What the web layer may store (blueprints/management.py, add_rule_route): an
\* individual rule on NF for either user, a group rule on the prefix N for u1.
\* Thresholds: target profit 2, max loss 4.
NewRules ==
    {Rule("u1", SymNF, "MIS", "TOTAL_LOSS", Num(4), Num(2), FALSE),
     Rule("u2", SymNF, "MIS", "TOTAL_LOSS", Num(4), Num(2), FALSE),
     Rule("u1", SymN, "MIS", "TOTAL_LOSS", Num(4), Num(2), TRUE)}

\* What the broker may report for a user: one share of N or NF.
BookPositions ==
    {Pos(SymN, "MIS", Num(QtyScale), NoneV, Num(2)),
     Pos(SymNF, "MIS", Num(QtyScale), NoneV, Num(2)),
     Pos(SymNF, "MIS", Num(QtyScale), NoneV, Num(-2))}

\* Results of get_api_key_for_user and get_positionbook for one user
Fetches ==
    {[api_key |-> "none", ok |-> FALSE, data |-> <<>>],
     [api_key |-> "key", ok |-> FALSE, data |-> <<>>]}
    \cup {[api_key |-> "key", ok |-> TRUE, data |-> d] : d \in SeqsUpTo(BookPositions, MaxPos)}

\* Instants the loop may sample
Clock ==
    {[weekday |-> 0, second |-> SecondOf(10, 0, 0), raises |-> FALSE],
     [weekday |-> 5, second |-> SecondOf(10, 0, 0), raises |-> FALSE],
     [weekday |-> 5, second |-> SecondOf(10, 0, 0), raises |-> TRUE]}

\* Messages the feed may deliver
FeedMessages ==
    {[decodes |-> TRUE, topic |-> <<"X", "_", "N", "_", "L">>, data |-> [ltp |-> Num(1)]]}

----------------------------------------------------------------------------
(* The rule store's external API (database/management_db.py) *)

add_rule(r) ==
    /\ nextId <= MaxRuleId
    /\ store' = [i \in DOMAIN store \cup {nextId} |->
                    IF i = nextId THEN [r EXCEPT !.id = nextId] ELSE store[i]]
    /\ nextId' = nextId + 1
    /\ UNCHANGED <<cache, pc, market, sess, rules, ui, ri, cur, orders, evals, evaluated,
                   fetches, okCount, threw, failed, unfetched, feed, got, probe>>

\* The running cycle still has rule `id` to evaluate.
Pending(id) ==
    /\ pc \in {"user", "rule"}
    /\ \E j \in ui..Len(rules) : \E k \in 1..Len(rules[j].rules) :
          /\ rules[j].rules[k].id = id
          /\ j > ui \/ pc = "user" \/ k >= ri

\* A request of the web thread.  The engine reads a row again only in the
\* execute_exit of a rule it has yet to evaluate, so a deletion at any other
\* moment of a cycle is the same deletion between two iterations.
delete_rule(rule_id, user_id) ==
    /\ pc = "top" \/ Pending(rule_id)
    /\ rule_id \in DOMAIN store
    /\ store[rule_id].user_id = user_id
    /\ store' = [i \in DOMAIN store \ {rule_id} |-> store[i]]
    /\ UNCHANGED <<nextId, cache, pc, market, sess, rules, ui, ri, cur, orders, evals,
                   evaluated, fetches, okCount, threw, failed, unfetched, feed, got, probe>>

----------------------------------------------------------------------------
(* management_loop (lines 104-145) and check_rules (lines 176-280) *)

NoUser == [user |-> "none", api_key |-> "none", pmap |-> <<>>]
NoProbe == [arg |-> NoneV, qty |-> NoneV, out |-> NoneV]

\* Lines 106-114
LoopTop ==
    /\ pc = "top"
    /\ \E now \in Clock : market' = is_market_open(now)
    /\ got' = <<>>
    /\ pc' = "poll"
    /\ UNCHANGED <<store, nextId, cache, sess, rules, ui, ri, cur, orders, evals, evaluated,
                   fetches, okCount, threw, failed, unfetched, feed, probe>>

\* The poll applying what it receives whatever the market status
PollFeed_ungated ==
    /\ pc = "poll"
    /\ IF feed # <<>>
       THEN /\ feed' = Tail(feed)
            /\ got' = <<Head(feed)>>
            /\ cache' = process_market_data(cache, Head(feed))
       ELSE UNCHANGED <<feed, got, cache>>
    /\ pc' = IF market THEN "check" ELSE "top"
    /\ UNCHANGED <<store, nextId, market, sess, rules, ui, ri, cur, orders, evals, evaluated,
                   fetches, okCount, threw, failed, unfetched, probe>>

\* The poll followed by check_rules whatever the market status
PollFeed_always_checks ==
    /\ pc = "poll"
    /\ IF feed # <<>>
       THEN /\ feed' = Tail(feed)
            /\ got' = <<Head(feed)>>
            /\ cache' = IF market THEN process_market_data(cache, Head(feed)) ELSE cache
       ELSE UNCHANGED <<feed, got, cache>>
    /\ pc' = "check"
    /\ UNCHANGED <<store, nextId, market, sess, rules, ui, ri, cur, orders, evals, evaluated,
                   fetches, okCount, threw, failed, unfetched, probe>>

\* The poll going on to check_rules only in an iteration that received a message
PollFeed_waits_for_message ==
    /\ pc = "poll"
    /\ IF feed # <<>>
       THEN /\ feed' = Tail(feed)
            /\ got' = <<Head(feed)>>
            /\ cache' = IF market THEN process_market_data(cache, Head(feed)) ELSE cache
       ELSE UNCHANGED <<feed, got, cache>>
    /\ pc' = IF market /\ feed # <<>> THEN "check" ELSE "top"
    /\ UNCHANGED <<store, nextId, market, sess, rules, ui, ri, cur, orders, evals, evaluated,
                   fetches, okCount, threw, failed, unfetched, probe>>

\* Lines 116-141: the poll, then check_rules or the closed-market sleep
PollFeed ==
    /\ pc = "poll"
    /\ IF feed # <<>>
       THEN /\ feed' = Tail(feed)
            /\ got' = <<Head(feed)>>
            /\ cache' = IF market THEN process_market_data(cache, Head(feed)) ELSE cache
       ELSE UNCHANGED <<feed, got, cache>>
    /\ pc' = IF market THEN "check" ELSE "top"
    /\ UNCHANGED <<store, nextId, market, sess, rules, ui, ri, cur, orders, evals, evaluated,
                   fetches, okCount, threw, failed, unfetched, probe>>

\* Lines 180-188 with .first() in place of .all(): the first active rule alone
LoadRules_first_rule ==
    /\ pc = "check"
    /\ rules' = LET all == list_active_rules(store)
                 IN  GroupByUser(IF all = <<>> THEN all ELSE <<Head(all)>>, 1, <<>>)
    /\ sess' = Loaded
    /\ ui' = 1
    /\ ri' = 1
    /\ cur' = NoUser
    /\ orders' = <<>>
    /\ evals' = <<>>
    /\ evaluated' = {}
    /\ fetches' = <<>>
    /\ got' = <<>>
    /\ pc' = "user"
    /\ UNCHANGED <<store, nextId, cache, market, okCount, threw, failed, unfetched, feed, probe>>

\* Lines 180-188
LoadRules ==
    /\ pc = "check"
    /\ rules' = GroupByUser(list_active_rules(store), 1, <<>>)
    /\ sess' = Loaded
    /\ ui' = 1
    /\ ri' = 1
    /\ cur' = NoUser
    /\ orders' = <<>>
    /\ evals' = <<>>
    /\ evaluated' = {}
    /\ fetches' = <<>>
    /\ got' = <<>>
    /\ pc' = "user"
    /\ UNCHANGED <<store, nextId, cache, market, okCount, threw, failed, unfetched, feed, probe>>

\* Lines 190-202
FetchUser ==
    /\ pc = "user"
    /\ ui <= Len(rules)
    /\ \E f \in {[api_key |-> g.api_key, ok |-> g.ok, pmap |-> PositionsMap(g.data)] :
                  g \in Fetches} :
        /\ fetches' = IF f.api_key = "none" THEN fetches ELSE Append(fetches, rules[ui].user)
        /\ IF f.ok
           THEN /\ cur' = [user |-> rules[ui].user, api_key |-> f.api_key, pmap |-> f.pmap]
                /\ ri' = 1
                /\ pc' = "rule"
                /\ ui' = ui
           ELSE /\ ui' = ui + 1
                /\ UNCHANGED <<cur, ri, pc>>
        /\ failed' = IF f.ok THEN failed ELSE failed \cup {rules[ui].user}
    /\ evals' = <<>>
    /\ UNCHANGED <<store, nextId, cache, market, sess, rules, orders, evaluated, okCount,
                   threw, unfetched, feed, got, probe>>

\* The ids of the rules a cycle loaded
SnapshotOf(rs) ==
    UNION {{rs[j].rules[k].id : k \in 1..Len(rs[j].rules)} : j \in 1..Len(rs)}

SnapshotIds == SnapshotOf(rules)

\* The place_order calls for rule id that returned
Returned(os, id) == {i \in 1..Len(os) : os[i].rule = id /\ os[i].outcome = "returns"}

\* Lines 204-271 for the next rule of the user
EvalNextRule ==
    /\ pc = "rule"
    /\ \E ctx \in {EvalRule(NewCtx(store, sess), rules[ui].rules[ri], cur.pmap, cur.api_key,
                              cache, outs) : outs \in [1..MaxPos -> Outcomes]} :
        /\ store' = ctx.store
        /\ sess' = ctx.sess
        /\ orders' = orders \o ctx.orders
        /\ evals' = evals \o ctx.evals
        /\ evaluated' = evaluated \cup {ctx.evals[i].rule : i \in 1..Len(ctx.evals)}
        /\ okCount' = [i \in DOMAIN okCount |->
                         IF okCount[i] + Cardinality(Returned(ctx.orders, i)) > MaxOk
                         THEN MaxOk
                         ELSE okCount[i] + Cardinality(Returned(ctx.orders, i))]
        /\ IF ctx.escaped \/ ri = Len(rules[ui].rules)
           THEN /\ ui' = ui + 1
                /\ ri' = 1
                /\ pc' = "user"
           ELSE /\ ri' = ri + 1
                /\ UNCHANGED <<ui, pc>>
        /\ UNCHANGED cur
    /\ UNCHANGED <<nextId, cache, market, rules, fetches, threw, failed, unfetched, feed, got, probe>>

\* Lines 276-277
EndCycle ==
    /\ pc = "user"
    /\ ui > Len(rules)
    /\ sess' = NoObjects            \* session.close(); the rule objects die with the frame
    /\ rules' = <<>>
    /\ ui' = 1
    /\ orders' = <<>>
    /\ evals' = <<>>
    /\ evaluated' = {}
    /\ fetches' = <<>>
    /\ cur' = NoUser
    /\ failed' = {}
    /\ unfetched' = failed
    /\ threw' = {id \in SnapshotOf(rules) :
                    /\ \E i \in 1..Len(orders) : orders[i].rule = id
                    /\ Returned(orders, id) = {}}
    /\ pc' = "top"
    /\ UNCHANGED <<store, nextId, cache, market, ri, okCount, feed, got, probe>>

\* The publisher.  Only the poll reads the socket: a message published at any
\* other moment waits there, which is the same as its being published just
\* before the next poll.
Publish ==
    /\ pc = "poll"
    /\ feed = <<>>
    /\ \E msg \in FeedMessages : feed' = <<msg>>
    /\ UNCHANGED <<store, nextId, cache, pc, market, sess, rules, ui, ri, cur, orders, evals,
                   evaluated, fetches, okCount, threw, failed, unfetched, got, probe>>

AddRule == \E r \in NewRules : add_rule(r)
DeleteRule == \E id \in 1..MaxRuleId, u \in Users : delete_rule(id, u)

Init ==
    /\ store = [i \in {} |-> 0]
    /\ nextId = 1
    /\ cache = [s \in {} |-> 0]
    /\ pc = "top"
    /\ market = FALSE
    /\ sess = NoObjects
    /\ rules = <<>>
    /\ ui = 1
    /\ ri = 1
    /\ cur = NoUser
    /\ orders = <<>>
    /\ evals = <<>>
    /\ evaluated = {}
    /\ fetches = <<>>
    /\ okCount = [i \in 1..MaxRuleId |-> 0]
    /\ threw = {}
    /\ failed = {}
    /\ unfetched = {}
    /\ feed = <<>>
    /\ got = <<>>
    /\ probe = NoProbe

Next ==
    \/ LoopTop
    \/ PollFeed
    \/ Publish
    \/ LoadRules
    \/ FetchUser
    \/ EvalNextRule
    \/ EndCycle
    \/ AddRule
    \/ DeleteRule

Spec == Init /\ [][Next]_vars

----------------------------------------------------------------------------
(* One rule against one position book: the state check_rules is in after     *)
(* line 202, for any rule and any book of a wider range than Spec's.          *)

EvalRules ==
    {Rule("u1", SymN, "MIS", e, ml, tp, g) :
        e \in {"TOTAL_LOSS", "CANDLE_CLOSE", "BOTH", "NONE"},
        ml \in {NoneV, Num(0), Num(2), Num(-2)},
        tp \in {NoneV, Num(0), Num(2), Num(-2)},
        g \in BOOLEAN}

\* N and NF in product MIS, long or short a share and a fraction, with an
\* average price for N; NF in another product, an unrelated symbol, a flat
\* position and a fraction of a share.
EvalPositions ==
    {Pos(SymN, "MIS", Num(q), Num(2), Num(p)) :
        q \in {QtyScale + 1, -(QtyScale + 1)}, p \in {-2, 2}}
    \cup {Pos(SymNF, "MIS", Num(q), NoneV, Num(p)) :
            q \in {QtyScale + 1, -(QtyScale + 1)}, p \in {-2, 2}}
    \cup {Pos(SymNF, "NRML", Num(QtyScale + 1), NoneV, Num(2)),
          Pos(SymB, "MIS", Num(QtyScale + 1), NoneV, Num(2)),
          Pos(SymN, "MIS", Num(0), NoneV, Num(2)),
          Pos(SymN, "MIS", Num(1), NoneV, Num(2))}

EvalCaches == {[s \in {} |-> 0], [s \in {SymN} |-> [f \in {"ltp"} |-> 3]]}

InitEval ==
    /\ \E r \in EvalRules : store = [i \in {1} |-> [r EXCEPT !.id = 1]]
    /\ nextId = 2
    /\ cache \in EvalCaches
    /\ pc = "rule"
    /\ market = TRUE
    /\ sess = Loaded
    /\ rules = GroupByUser(list_active_rules(store), 1, <<>>)
    /\ ui = 1
    /\ ri = 1
    /\ \E d \in SeqsUpTo(EvalPositions, MaxPos) :
          cur = [user |-> "u1", api_key |-> "key", pmap |-> PositionsMap(d)]
    /\ orders = <<>>
    /\ evals = <<>>
    /\ evaluated = {}
    /\ fetches = <<"u1">>
    /\ okCount = [i \in 1..MaxRuleId |-> 0]
    /\ threw = {}
    /\ failed = {}
    /\ unfetched = {}
    /\ feed = <<>>
    /\ got = <<>>
    /\ probe = NoProbe

NextEval == EvalNextRule

SpecEval == InitEval /\ [][NextEval]_vars

----------------------------------------------------------------------------
(* calculate_pnl and get_net_qty on their own *)

\* Absent, not a number, flat, one share long, ten shares short
QtyValues == {NoneV, BadV, Num(0), Num(QtyScale), Num(-10 * QtyScale)}

PnlPositions ==
    {[symbol |-> SymN, product |-> "MIS", quantity |-> a, netqty |-> b, net_qty |-> c,
      qty |-> d, netavgprc |-> avg, pnl |-> p] :
        a \in QtyValues, b \in {NoneV, BadV, Num(2)}, c \in {NoneV, BadV, Num(4)},
        d \in {NoneV, Num(6)}, avg \in {NoneV, BadV, Num(100)}, p \in {NoneV, BadV, Num(7)}}

PnlCaches ==
    {[s \in {} |-> 0],
     [s \in {SymN} |-> [f \in {"ltp"} |-> 95]],
     [s \in {SymN} |-> [f \in {"open"} |-> 95]],
     [s \in {SymB} |-> [f \in {"ltp"} |-> 95]]}

InitPnl ==
    /\ store = [i \in {} |-> 0]
    /\ nextId = 1
    /\ cache \in PnlCaches
    /\ pc = "calculate_pnl"
    /\ market = TRUE
    /\ sess = NoObjects
    /\ rules = <<>>
    /\ ui = 1
    /\ ri = 1
    /\ cur = NoUser
    /\ orders = <<>>
    /\ evals = <<>>
    /\ evaluated = {}
    /\ fetches = <<>>
    /\ okCount = [i \in 1..MaxRuleId |-> 0]
    /\ threw = {}
    /\ failed = {}
    /\ unfetched = {}
    /\ feed = <<>>
    /\ got = <<>>
    /\ \E pos \in PnlPositions : probe = [arg |-> pos, qty |-> NoneV, out |-> NoneV]

CalculatePnl ==
    /\ pc = "calculate_pnl"
    /\ probe' = [probe EXCEPT !.qty = Num(get_net_qty(probe.arg)),
                              !.out = Num(calculate_pnl(cache, probe.arg))]
    /\ pc' = "done"
    /\ UNCHANGED <<store, nextId, cache, market, sess, rules, ui, ri, cur, orders, evals,
                   evaluated, fetches, okCount, threw, failed, unfetched, feed, got>>

NextPnl == CalculatePnl

SpecPnl == InitPnl /\ [][NextPnl]_vars

----------------------------------------------------------------------------
(* process_market_data on its own: the messages of an open market, applied   *)
(* one after the other (management_loop, lines 116-124).                     *)

Topic3 == <<"X", "_", "N", "_", "L">>
Topic4 == <<"Z", "_", "X", "_", "N", "_", "L">>
Topic2 == <<"N", "_", "L">>
TopicGap == <<"X", "_", "_", "L">>
TopicB == <<"X", "_", "B", "_", "L">>

Message(topic, data) == [decodes |-> TRUE, topic |-> topic, data |-> data]

\* One field; two fields; a field float() rejects between two it accepts; bytes
\* that do not decode; topics of two, four and three segments with an empty
\* one; an explicit symbol, an empty explicit symbol; no field at all.
FeedInputs ==
    {Message(Topic3, [ltp |-> Num(1)]),
     Message(Topic3, [ltp |-> Num(2), open |-> Num(3)]),
     Message(Topic3, [ltp |-> Num(2), open |-> BadV, high |-> Num(4)]),
     [decodes |-> FALSE, topic |-> Topic3, data |-> [ltp |-> Num(5)]],
     Message(Topic2, [ltp |-> Num(2)]),
     Message(Topic4, [close |-> Num(2)]),
     Message(TopicGap, [ltp |-> Num(2)]),
     Message(Topic3, [symbol |-> SymB, ltp |-> Num(2)]),
     Message(Topic2, [symbol |-> <<>>, volume |-> Num(2)]),
     Message(TopicB, [g \in {} |-> NoneV])}

FeedCaches ==
    {[s \in {} |-> EmptyEntry],
     [s \in {SymN} |-> [ltp |-> 9, open |-> 8]],
     [s \in {SymN, SymB} |-> [ltp |-> 9]]}

InitFeed ==
    /\ store = [i \in {} |-> 0]
    /\ nextId = 1
    /\ cache \in FeedCaches
    /\ pc = "process_market_data"
    /\ market = TRUE
    /\ sess = NoObjects
    /\ rules = <<>>
    /\ ui = 1
    /\ ri = 1
    /\ cur = NoUser
    /\ orders = <<>>
    /\ evals = <<>>
    /\ evaluated = {}
    /\ fetches = <<>>
    /\ okCount = [i \in 1..MaxRuleId |-> 0]
    /\ threw = {}
    /\ failed = {}
    /\ unfetched = {}
    /\ feed \in SeqsUpTo(FeedInputs, MaxFeed)
    /\ got = <<>>
    /\ probe = NoProbe

\* Lines 117-122 with the market open; got keeps every message received
ProcessMarketData ==
    /\ pc = "process_market_data"
    /\ feed # <<>>
    /\ cache' = process_market_data(cache, Head(feed))
    /\ got' = Append(got, Head(feed))
    /\ feed' = Tail(feed)
    /\ UNCHANGED <<store, nextId, pc, market, sess, rules, ui, ri, cur, orders, evals,
                   evaluated, fetches, okCount, threw, failed, unfetched, probe>>

NextFeed == ProcessMarketData

SpecFeed == InitFeed /\ [][NextFeed]_vars


----------------------------------------------------------------------------
(* is_market_open alone, on every day of the week, around both ends of the  *)
(* session and with a clock that raises.                                     *)

CalendarInstants ==
    {[weekday |-> d, second |-> s, raises |-> e] :
        d \in 0..6,
        s \in {SecondOf(0, 0, 0), SecondOf(9, 14, 59), SecondOf(9, 15, 0), SecondOf(9, 15, 1),
               SecondOf(12, 0, 0), SecondOf(15, 29, 59), SecondOf(15, 30, 0),
               SecondOf(15, 30, 1), SecondOf(23, 59, 59)},
        e \in BOOLEAN}

InitCalendar ==
    /\ store = [i \in {} |-> 0]
    /\ nextId = 1
    /\ cache = [s \in {} |-> 0]
    /\ pc = "is_market_open"
    /\ market \in BOOLEAN          \* what the iteration before sampled
    /\ sess = NoObjects
    /\ rules = <<>>
    /\ ui = 1
    /\ ri = 1
    /\ cur = NoUser
    /\ orders = <<>>
    /\ evals = <<>>
    /\ evaluated = {}
    /\ fetches = <<>>
    /\ okCount = [i \in 1..MaxRuleId |-> 0]
    /\ threw = {}
    /\ failed = {}
    /\ unfetched = {}
    /\ feed = <<>>
    /\ got = <<>>
    /\ \E now \in CalendarInstants : probe = [arg |-> now, qty |-> NoneV, out |-> NoneV]

\* Line 106 at the instant probe.arg
IsMarketOpen ==
    /\ pc = "is_market_open"
    /\ market' = is_market_open(probe.arg)
    /\ pc' = "returned"
    /\ UNCHANGED <<store, nextId, cache, sess, rules, ui, ri, cur, orders, evals, evaluated,
                   fetches, okCount, threw, failed, unfetched, feed, got, probe>>

NextCalendar == IsMarketOpen

SpecCalendar == InitCalendar /\ [][NextCalendar]_vars

----------------------------------------------------------------------------
(* The loop as a running thread.  The specifications below add to the loop  *)
(* the fairness of a thread that is scheduled: a step of the engine that     *)
(* stays possible is eventually taken.  The publisher may run ahead of the  *)
(* poll by MaxFeed messages, individual rules are added between two          *)
(* iterations, and a book is empty or holds one position in profit.          *)

PublishAhead ==
    /\ pc = "poll"
    /\ Len(feed) < MaxFeed
    /\ \E msg \in FeedMessages : feed' = Append(feed, msg)
    /\ UNCHANGED <<store, nextId, cache, pc, market, sess, rules, ui, ri, cur, orders, evals,
                   evaluated, fetches, okCount, threw, failed, unfetched, got, probe>>

\* The individual rules of NewRules
LiveRules == {r \in NewRules : ~r.is_group_rule}

AddRuleBetween == pc = "top" /\ \E r \in LiveRules : add_rule(r)

LiveBooks == {<<>>, <<Pos(SymNF, "MIS", Num(QtyScale), NoneV, Num(2))>>}

FetchUserLive == FetchUser /\ (pc' = "rule" => cur'.pmap \in LiveBooks)

EngineLive ==
    \/ LoopTop
    \/ PollFeed
    \/ LoadRules
    \/ FetchUserLive
    \/ EvalNextRule
    \/ EndCycle

NextLive ==
    \/ EngineLive
    \/ PublishAhead
    \/ AddRuleBetween

SpecLive == Init /\ [][NextLive]_vars /\ WF_vars(EngineLive)

----------------------------------------------------------------------------
(* The loop with its external calls raising.  is_market_open catches what   *)
(* the clock raises (an instant of Clock), process_market_data what a        *)
(* message raises (a message that does not decode), check_rules what the     *)
(* credential lookup and the position fetch raise (line 273: the user is     *)
(* skipped, as for a fetch that fails) and execute_exit what place_order     *)
(* raises (an outcome of EvalNextRule).  Left are the poll and the query.    *)

\* poller.poll or recv_multipart raises (lines 117-119), with the message read
\* or not: caught on line 143, the iteration ends after the sleep of line 145.
PollRaises ==
    /\ pc = "poll"
    /\ \E rest \in {feed} \cup (IF feed # <<>> THEN {Tail(feed)} ELSE {}) : feed' = rest
    /\ pc' = "top"
    /\ UNCHANGED <<store, nextId, cache, market, sess, rules, ui, ri, cur, orders, evals,
                   evaluated, fetches, okCount, threw, failed, unfetched, got, probe>>

\* The exception of the query leaving check_rules and the loop
LoadRulesRaises_uncaught ==
    /\ pc = "check"
    /\ pc' = "stopped"
    /\ UNCHANGED <<store, nextId, cache, market, sess, rules, ui, ri, cur, orders, evals,
                   evaluated, fetches, okCount, threw, failed, unfetched, feed, got, probe>>

\* db_session() or the query raises (lines 180-181): caught on line 279,
\* check_rules returns and the iteration ends.
LoadRulesRaises ==
    /\ pc = "check"
    /\ pc' = "top"
    /\ UNCHANGED <<store, nextId, cache, market, sess, rules, ui, ri, cur, orders, evals,
                   evaluated, fetches, okCount, threw, failed, unfetched, feed, got, probe>>

FaultMessages ==
    FeedMessages \cup {[decodes |-> FALSE, topic |-> <<"X", "_", "N", "_", "L">>,
                        data |-> [f \in {} |-> NoneV]]}

PublishFaulty ==
    /\ pc = "poll"
    /\ feed = <<>>
    /\ \E msg \in FaultMessages : feed' = <<msg>>
    /\ UNCHANGED <<store, nextId, cache, pc, market, sess, rules, ui, ri, cur, orders, evals,
                   evaluated, fetches, okCount, threw, failed, unfetched, got, probe>>

EngineFaults ==
    \/ EngineLive
    \/ PollRaises
    \/ LoadRulesRaises

NextFaults ==
    \/ EngineFaults
    \/ PublishFaulty
    \/ AddRuleBetween

SpecFaults == Init /\ [][NextFaults]_vars /\ WF_vars(EngineFaults)

----------------------------------------------------------------------------
(* The loop around one rule whose trigger condition holds for good.  The    *)
(* table is full and the rule followed is the last in it, behind every other *)
(* rule in the order of the query.  The market stays open, the rule is not   *)
(* deleted, its owner's fetch returns a position in profit beyond the        *)
(* target of every rule, and place_order returns for it.  The other rules    *)
(* and users are free: their fetches fail or not, their place_order calls    *)
(* throw or not, their rows are deleted or not, messages arrive or not.      *)

TargetRule == MaxRuleId

ExitBook == <<Pos(SymNF, "MIS", Num(QtyScale), NoneV, Num(2))>>

InitExit ==
    /\ \E rs \in [1..MaxRuleId -> NewRules] :
          store = [i \in 1..MaxRuleId |-> [rs[i] EXCEPT !.id = i]]
    /\ nextId = MaxRuleId + 1
    /\ cache = [s \in {} |-> 0]
    /\ pc = "top"
    /\ market = FALSE
    /\ sess = NoObjects
    /\ rules = <<>>
    /\ ui = 1
    /\ ri = 1
    /\ cur = NoUser
    /\ orders = <<>>
    /\ evals = <<>>
    /\ evaluated = {}
    /\ fetches = <<>>
    /\ okCount = [i \in 1..MaxRuleId |-> 0]
    /\ threw = {}
    /\ failed = {}
    /\ unfetched = {}
    /\ feed = <<>>
    /\ got = <<>>
    /\ probe = NoProbe

LoopTopOpen == LoopTop /\ market'

FetchUserExit ==
    /\ FetchUser
    /\ pc' = "rule" => cur'.pmap \in LiveBooks
    /\ (store[TargetRule].is_active /\ rules[ui].user = store[TargetRule].user_id) =>
          (pc' = "rule" /\ cur'.pmap = ExitBook)

EvalNextRuleExit ==
    /\ EvalNextRule
    /\ \A i \in 1..Len(orders') :
          orders'[i].rule = TargetRule => orders'[i].outcome = "returns"

DeleteOther == \E id \in 1..MaxRuleId \ {TargetRule}, u \in Users : delete_rule(id, u)

EngineExit ==
    \/ LoopTopOpen
    \/ PollFeed
    \/ LoadRules
    \/ FetchUserExit
    \/ EvalNextRuleExit
    \/ EndCycle

NextExit ==
    \/ EngineExit
    \/ Publish
    \/ DeleteOther

SpecExit == InitExit /\ [][NextExit]_vars /\ WF_vars(EngineExit)

----------------------------------------------------------------------------
(* Properties.  The helpers below restate what the specification says, in   *)
(* its own terms, for comparison with what the engine does.                  *)

RuleOrders(os, id) == {i \in 1..Len(os) : os[i].rule = id}

\* The rule a cycle loaded under primary key id
LoadedRule(id) ==
    CHOOSE r \in UNION {{rules[j].rules[k] : k \in 1..Len(rules[j].rules)} :
                          j \in 1..Len(rules)} : r.id = id

\* The place_order calls a step adds to the cycle's calls
NewCalls ==
    IF Len(orders') >= Len(orders) /\ SubSeq(orders', 1, Len(orders)) = orders
    THEN SubSeq(orders', Len(orders) + 1, Len(orders'))
    ELSE <<>>

\* Net quantity: the first of quantity, netqty, net_qty, qty that is numeric
SpecQty(p) ==
    IF p.quantity.k = "num" THEN p.quantity.v
    ELSE IF p.netqty.k = "num" THEN p.netqty.v
    ELSE IF p.net_qty.k = "num" THEN p.net_qty.v
    ELSE IF p.qty.k = "num" THEN p.qty.v
    ELSE 0

\* Live P&L of a position
SpecPnlOf(c, p) ==
    LET broker == IF p.pnl.k = "num" THEN p.pnl.v ELSE 0
        q == SpecQty(p)
        quoted == p.symbol \in DOMAIN c /\ "ltp" \in DOMAIN c[p.symbol]
    IN  IF quoted /\ p.netavgprc.k = "num" /\ q > 0
        THEN (c[p.symbol]["ltp"] - p.netavgprc.v) * q
        ELSE IF quoted /\ p.netavgprc.k = "num" /\ q < 0
        THEN (p.netavgprc.v - c[p.symbol]["ltp"]) * (-q)
        ELSE broker

\* A threshold is set when it holds a non-zero number: lines 224 and 251 test
\* the column's truth value.
IsSet(x) == x.k = "num" /\ x.v # 0
TargetCond(r, pnl) == IsSet(r.target_profit) /\ pnl >= r.target_profit.v
LossCond(r, pnl) ==
    r.exit_type \in {"TOTAL_LOSS", "BOTH"} /\ IsSet(r.max_loss) /\ pnl < 0 /\ -pnl >= r.max_loss.v

\* The position an individual rule is joined to: the exact (symbol, product)
ExactPositions(r, pmap) ==
    SelectSeq(pmap, LAMBDA p : p.symbol = r.symbol /\ p.product = r.product)

\* The match set of a group rule
IsPrefix(pre, s) == \E n \in 0..Len(s) : SubSeq(s, 1, n) = pre
GroupPositions(r, pmap) ==
    SelectSeq(pmap, LAMBDA p : IsPrefix(r.symbol, p.symbol) /\ p.product = r.product
                                  /\ SpecQty(p) # 0)

RECURSIVE SpecSum(_, _)
SpecSum(c, ps) == IF ps = <<>> THEN 0 ELSE SpecPnlOf(c, Head(ps)) + SpecSum(c, Tail(ps))

TargetReasons == {"Target Profit Triggered", "Group Target Profit: "}
LossReasons == {"Max Loss Triggered", "Group Max Loss: "}

\* check_rules has finished with the user whose positions cur holds
UserDone == pc = "user" /\ ui > 1 /\ ui - 1 <= Len(rules) /\ cur.user = rules[ui - 1].user

C2_FailurePolicy ==
    /\ [][/\ \A i \in 1..Len(NewCalls) :
                NewCalls[i].outcome = "returns" =>
                    (NewCalls[i].rule \in DOMAIN store' =>
                        ~store'[NewCalls[i].rule].is_active)
          /\ \A id \in DOMAIN store \cap DOMAIN store' :
                store'[id] # store[id] =>
                    /\ store'[id] = [store[id] EXCEPT !.is_active = FALSE]
                    /\ \E i \in 1..Len(NewCalls) :
                          NewCalls[i].rule = id /\ NewCalls[i].outcome = "returns"
          /\ (pc = "check" /\ pc' = "user") =>
                \A id \in DOMAIN store : store[id].is_active => id \in SnapshotOf(rules')
         ]_vars
    /\ [](UserDone =>
            \A k \in 1..Len(rules[ui - 1].rules) :
                rules[ui - 1].rules[k].id \in threw => rules[ui - 1].rules[k].id \in evaluated)

C4_IndividualTrigger ==
    UserDone =>
        \A k \in 1..Len(rules[ui - 1].rules) :
            LET r == rules[ui - 1].rules[k]
                ps == ExactPositions(r, cur.pmap)
            IN  (~r.is_group_rule /\ ps # <<>> /\ SpecQty(ps[1]) # 0) =>
                    LET pnl == SpecPnlOf(cache, ps[1])
                        cond == TargetCond(r, pnl) \/ LossCond(r, pnl)
                    IN  /\ cond <=> RuleOrders(orders, r.id) # {}
                        /\ ~cond => (r.id \in DOMAIN store => store[r.id].is_active)

\* C5: Precedence law.  For every rule evaluated (individual, or group on the
\* sum over its match set), the orders placed for it all carry one kind of
\* reason, and when the target-profit condition holds of the P&L an exit has
\* been executed and every one of its orders carries the target-profit reason.
C5_Precedence ==
    \A e \in 1..Len(evals) :
        LET r == LoadedRule(evals[e].rule)
            ps == IF r.is_group_rule THEN GroupPositions(r, cur.pmap)
                  ELSE ExactPositions(r, cur.pmap)
            applies == ps # <<>> /\ (r.is_group_rule \/ SpecQty(ps[1]) # 0)
            pnl == IF r.is_group_rule THEN SpecSum(cache, ps) ELSE SpecPnlOf(cache, ps[1])
            mine == RuleOrders(orders, r.id)
        IN  /\ \A i, j \in mine :
                  orders[i].reason[1] \in TargetReasons <=> orders[j].reason[1] \in TargetReasons
            /\ \A i \in mine : orders[i].reason[1] \in TargetReasons \cup LossReasons
            /\ (applies /\ TargetCond(r, pnl)) =>
                  /\ mine # {}
                  /\ \A i \in mine : orders[i].reason[1] \in TargetReasons

\* C5 witness: an individual rule whose target and loss conditions both hold
\* of the position's P&L has been evaluated and exited.
C5_Witness ==
    /\ UserDone
    /\ \E e \in 1..Len(evals) :
          LET r == LoadedRule(evals[e].rule)
              ps == ExactPositions(r, cur.pmap)
          IN  /\ ~r.is_group_rule
              /\ ps # <<>>
              /\ SpecQty(ps[1]) # 0
              /\ TargetCond(r, SpecPnlOf(cache, ps[1]))
              /\ LossCond(r, SpecPnlOf(cache, ps[1]))
              /\ RuleOrders(orders, r.id) # {}

\* C6: No exit on a flat or absent position.  An individual rule evaluated
\* while the user's positions hold no entry under its exact (symbol, product),
\* or hold one of net quantity zero, has no order and its row is still active.
C6_NoExitWhenFlat ==
    \A e \in 1..Len(evals) :
        LET r == LoadedRule(evals[e].rule)
            ps == ExactPositions(r, cur.pmap)
        IN  (~r.is_group_rule /\ (ps = <<>> \/ SpecQty(ps[1]) = 0)) =>
                /\ RuleOrders(orders, r.id) = {}
                /\ r.id \in DOMAIN store => store[r.id].is_active

\* C6 witness: an individual rule was evaluated against a flat position whose
\* reported P&L meets the rule's target.
C6_Witness ==
    /\ UserDone
    /\ \E e \in 1..Len(evals) :
          LET r == LoadedRule(evals[e].rule)
              ps == ExactPositions(r, cur.pmap)
          IN  /\ ~r.is_group_rule
              /\ ps # <<>>
              /\ SpecQty(ps[1]) = 0
              /\ TargetCond(r, SpecPnlOf(cache, ps[1]))
              /\ orders = <<>>

\* C7: Inactive rules are permanently excluded.  The rows a cycle holds were
\* active when it loaded them, a load takes no inactive row, only rules of the
\* loaded set are evaluated or have orders placed, and no step turns is_active
\* from false to true.
C7_InactiveExcluded ==
    /\ [](/\ \A j \in 1..Len(rules) : \A k \in 1..Len(rules[j].rules) :
                rules[j].rules[k].is_active
          /\ evaluated \subseteq SnapshotIds
          /\ \A i \in 1..Len(orders) : orders[i].rule \in SnapshotIds
          /\ \A e \in 1..Len(evals) : evals[e].rule \in SnapshotIds)
    /\ [][/\ (pc = "check" /\ pc' = "user") =>
                \A id \in DOMAIN store : ~store[id].is_active => id \notin SnapshotOf(rules')
          /\ \A id \in DOMAIN store \cap DOMAIN store' :
                ~store[id].is_active => ~store'[id].is_active
         ]_vars

\* C7 witness: a cycle that loaded while a rule was stored inactive has
\* evaluated the other rule and reached its end.
C7_Witness ==
    /\ pc = "user"
    /\ ui > Len(rules)
    /\ evaluated # {}
    /\ \E id \in DOMAIN store : ~store[id].is_active /\ id \notin SnapshotIds

\* C8: Group matching and aggregation.  The match set of an evaluated group
\* rule is the positions whose symbol starts with the rule's symbol, whose
\* product is the rule's and whose net quantity is not zero, in the order of
\* the positions; with an empty match set there is no order and the row stays
\* active; otherwise the thresholds are compared with the sum of the live P&L
\* of the matched positions: an order is placed when the target condition, or
\* the loss condition of a TOTAL_LOSS or BOTH rule, holds of the sum, none is
\* placed unless the sum reaches the target or minus the loss limit, and every
\* order's reason quotes the sum.
C8_GroupMatching ==
    \A e \in 1..Len(evals) :
        LET r == LoadedRule(evals[e].rule)
            matched == GroupPositions(r, cur.pmap)
            total == SpecSum(cache, matched)
            mine == RuleOrders(orders, r.id)
            lossReached == IsSet(r.max_loss) /\ total <= -Abs(r.max_loss.v)
        IN  r.is_group_rule =>
                /\ evals[e].matched = matched
                /\ matched = <<>> =>
                      /\ mine = {}
                      /\ r.id \in DOMAIN store => store[r.id].is_active
                /\ matched # <<>> =>
                      /\ TargetCond(r, total) => mine # {}
                      /\ (r.exit_type \in {"TOTAL_LOSS", "BOTH"} /\ lossReached) => mine # {}
                      /\ mine # {} => TargetCond(r, total) \/ lossReached
                      /\ \A i \in mine :
                            /\ orders[i].reason[2] = total
                            /\ \E m \in 1..Len(matched) : orders[i].position = matched[m]

\* C8 witness: a group rule was evaluated and exited on a match set that leaves
\* out a position with the rule's prefix in another product.
C8_Witness ==
    /\ UserDone
    /\ \E e \in 1..Len(evals) :
          LET r == LoadedRule(evals[e].rule)
          IN  /\ r.is_group_rule
              /\ evals[e].matched # <<>>
              /\ RuleOrders(orders, r.id) # {}
              /\ \E i \in 1..Len(cur.pmap) :
                    /\ IsPrefix(r.symbol, cur.pmap[i].symbol)
                    /\ cur.pmap[i].product # r.product
                    /\ SpecQty(cur.pmap[i]) # 0

\* C9: Live P&L.  calculate_pnl returns the broker-reported pnl unless the
\* quote cache holds an ltp for the symbol and the position carries an average
\* price; then it returns (ltp - avg) * q for q > 0, (avg - ltp) * |q| for q < 0
\* and the broker-reported value for q = 0: with avg 100 and ltp 95, -5 * q for
\* a long and 50 for ten shares short.  q is the first of quantity, netqty,
\* net_qty, qty that is numeric, else 0.
C9_LivePnl ==
    pc = "done" =>
        LET pos == probe.arg
            q == SpecQty(pos)
            recomputed == /\ SymN \in DOMAIN cache
                          /\ "ltp" \in DOMAIN cache[SymN]
                          /\ pos.netavgprc.k = "num"
        IN  /\ probe.qty = Num(q)
            /\ probe.out = Num(SpecPnlOf(cache, pos))
            /\ (~recomputed \/ q = 0) => probe.out = (IF pos.pnl.k = "num" THEN pos.pnl ELSE Num(0))
            /\ (recomputed /\ q > 0) => probe.out = Num(-5 * q)
            /\ (recomputed /\ q = -10 * QtyScale) => probe.out = Num(50 * QtyScale)

\* C9 witness: calculate_pnl has been applied to ten shares short at average
\* price 100 with a cached ltp of 95, the quantity coming from the first key.
C9_Witness ==
    /\ pc = "done"
    /\ probe.arg.quantity = Num(-10 * QtyScale)
    /\ probe.arg.netavgprc = Num(100)
    /\ SymN \in DOMAIN cache
    /\ "ltp" \in DOMAIN cache[SymN]
    /\ probe.out = Num(50 * QtyScale)

\* C10: Closing order construction.  Every order is a MARKET order with price
\* 0, trigger price 0, disclosed quantity 0 and tag MANAGEMENT_EXIT; its side is
\* SELL for a positive net quantity of the position and BUY for a negative one;
\* its quantity is the absolute net quantity truncated to whole shares.
C10_OrderConstruction ==
    \A i \in 1..Len(orders) :
        LET o == orders[i].payload
            q == SpecQty(orders[i].position)
        IN  /\ o.pricetype = "MARKET"
            /\ o.price = 0
            /\ o.trigger_price = 0
            /\ o.disclosed_quantity = 0
            /\ o.tag = "MANAGEMENT_EXIT"
            /\ q > 0 => o.action = "SELL"
            /\ q < 0 => o.action = "BUY"
            /\ o.quantity * QtyScale <= Abs(q)
            /\ Abs(q) < (o.quantity + 1) * QtyScale
            /\ o.quantity >= 0

\* C10 witness: an order was placed for a short position holding a share and
\* a fraction of a share.
C10_Witness ==
    \E i \in 1..Len(orders) :
        /\ SpecQty(orders[i].position) < 0
        /\ Abs(SpecQty(orders[i].position)) > QtyScale
        /\ Abs(SpecQty(orders[i].position)) < 2 * QtyScale
        /\ orders[i].payload.action = "BUY"
        /\ orders[i].payload.quantity = 1

\* C11: Market-closed feed gating.  When the poll of an iteration whose
\* calendar check returned closed finds a message, the message leaves the feed
\* and the quote cache, hence every symbol's ltp, is what it was.
C11_ClosedFeedGating ==
    [][(pc = "poll" /\ pc' # "poll" /\ ~market /\ feed # <<>>) =>
          /\ feed' = Tail(feed)
          /\ cache' = cache
          /\ \A sym \in DOMAIN cache' : sym \in DOMAIN cache /\ cache'[sym] = cache[sym]
      ]_vars

\* C11 witness: a closed iteration has received a message and the cache holds
\* no entry for the symbol the message names.
C11_Witness ==
    /\ pc = "top"
    /\ ~market
    /\ got # <<>>
    /\ feed = <<>>
    /\ Split(got[1].topic)[2] \notin DOMAIN cache

\* C12: No evaluation while closed.  check_rules runs only in an iteration
\* whose calendar check returned open: the poll of a closed iteration leads back
\* to the top of the loop and leaves rules, orders and fetches alone, and every
\* step that fetches positions, places an order or deactivates a rule is taken
\* inside check_rules with the market open.
C12_NoEvaluationWhileClosed ==
    /\ [](pc \in {"check", "user", "rule"} => market)
    /\ [][/\ (pc = "poll" /\ pc' # "poll" /\ ~market) =>
                /\ pc' = "top"
                /\ store' = store
                /\ orders' = orders
                /\ fetches' = fetches
                /\ evaluated' = evaluated
          /\ (\/ Len(fetches') > Len(fetches)
              \/ NewCalls # <<>>
              \/ \E id \in DOMAIN store \cap DOMAIN store' :
                    store[id].is_active /\ ~store'[id].is_active) =>
                (market /\ pc \in {"user", "rule"})
         ]_vars

\* C12 witness: a closed iteration has ended while the store held an active
\* rule and the cache a quote.
C12_Witness ==
    /\ pc = "top"
    /\ ~market
    /\ got # <<>>
    /\ DOMAIN cache # {}
    /\ \E id \in DOMAIN store : store[id].is_active

\* The quote fields of a payload
QuoteFields == {"ltp", "open", "high", "low", "close", "volume"}

\* The cache key of a message: the payload's symbol when there is a non-empty
\* one, else the segment before the last underscore of a topic with two
\* underscores or more, else none (<<>>)
SpecSymbol(msg) ==
    LET explicit == IF "symbol" \in DOMAIN msg.data THEN msg.data["symbol"] ELSE <<>>
        seps == {i \in 1..Len(msg.topic) : msg.topic[i] = "_"}
        last == CHOOSE i \in seps : \A j \in seps : j <= i
        before == {i \in seps : i < last}
        prev == IF before = {} THEN 0 ELSE CHOOSE i \in before : \A j \in before : j <= i
    IN  IF explicit # <<>> THEN explicit
        ELSE IF Cardinality(seps) >= 2 THEN SubSeq(msg.topic, prev + 1, last - 1)
        ELSE <<>>

\* The step in which process_market_data is applied to the head of the feed
Processing == pc = "process_market_data" /\ feed # <<>> /\ feed' = Tail(feed)

\* Entry s of cache c2 holds every quote field of msg
HoldsAll(c2, s, msg) ==
    /\ s \in DOMAIN c2
    /\ \A f \in QuoteFields \cap DOMAIN msg.data :
          /\ msg.data[f].k = "num"
          /\ f \in DOMAIN c2[s]
          /\ c2[s][f] = msg.data[f].v

\* Entry s is in c2 what it is in c1, absent included
SameEntry(c1, c2, s) ==
    /\ s \in DOMAIN c1 <=> s \in DOMAIN c2
    /\ s \in DOMAIN c1 => c2[s] = c1[s]

\* C13: Quote cache unit-of-message merge.  When process_market_data has
\* returned, which is when the evaluator of the same thread reads the cache,
\* the entry of the message's symbol holds all the quote fields of the message
\* or is exactly what it was, also when a field value cannot be converted.
C13_UnitMerge ==
    [][Processing =>
          LET msg == Head(feed)
              s == SpecSymbol(msg)
          IN  (msg.decodes /\ s # <<>>) =>
                  (HoldsAll(cache', s, msg) \/ SameEntry(cache, cache', s))
      ]_vars

C15_MalformedContained ==
    [][Processing =>
          LET msg == Head(feed)
              s == SpecSymbol(msg)
          IN  /\ ~msg.decodes => (cache' = cache /\ pc' = pc)
              /\ (/\ msg.decodes
                  /\ s # <<>>
                  /\ \A f \in QuoteFields \cap DOMAIN msg.data : msg.data[f].k = "num") =>
                    HoldsAll(cache', s, msg)
      ]_vars

\* C15 witness: a message that did not decode was received, then a message
\* carrying ltp, whose value the cache now holds.
C15_Witness ==
    /\ Len(got) = 2
    /\ ~got[1].decodes
    /\ got[2].decodes
    /\ "ltp" \in DOMAIN got[2].data
    /\ SpecSymbol(got[2]) # <<>>
    /\ HoldsAll(cache, SpecSymbol(got[2]), got[2])
    /\ cache[SpecSymbol(got[2])]["ltp"] # 9

\* C16: Symbol resolution.  A decoded message updates the entry keyed by its
\* payload's non-empty symbol, else by the second-to-last segment of a topic of
\* three segments or more, and no other entry (its numeric fields land there); with neither it changes nothing
\* and creates no entry.
C16_SymbolResolution ==
    [][Processing =>
          LET msg == Head(feed)
              s == SpecSymbol(msg)
          IN  msg.decodes =>
                  /\ s = <<>> => cache' = cache
                  /\ s # <<>> =>
                        /\ DOMAIN cache' = DOMAIN cache \cup {s}
                        /\ \A t \in DOMAIN cache \ {s} : cache'[t] = cache[t]
                        /\ (\A f \in QuoteFields \cap DOMAIN msg.data : msg.data[f].k = "num")
                              => HoldsAll(cache', s, msg)
      ]_vars

\* C16 witness: a message whose payload names B on a topic that names N has
\* been applied to an empty cache: B has the entry, N has none.
C16_Witness ==
    /\ Len(got) = 1
    /\ got[1].decodes
    /\ "symbol" \in DOMAIN got[1].data
    /\ got[1].data["symbol"] = SymB
    /\ Split(got[1].topic)[2] = SymN
    /\ DOMAIN cache = {SymB}
    /\ cache[SymB]["ltp"] = got[1].data["ltp"].v

\* C17: Per-user position fetch.  In one cycle no user's positions are fetched
\* twice; while a cycle runs, no rule of a user whose fetch failed has been
\* evaluated or has an order, and its row is still active; at the end of a cycle
\* with a failed fetch the rules of the other users have all been evaluated;
\* and when the rules of a user whose fetch failed in the last cycle have been
\* gone through after a fetch that worked, each of them has been evaluated.
C17_PerUserFetch ==
    /\ [](\A i, j \in 1..Len(fetches) : fetches[i] = fetches[j] => i = j)
    /\ [](pc \in {"user", "rule"} =>
            \A j \in 1..Len(rules) :
                rules[j].user \in failed =>
                    \A k \in 1..Len(rules[j].rules) :
                        LET id == rules[j].rules[k].id
                        IN  /\ id \notin evaluated
                            /\ \A i \in 1..Len(orders) : orders[i].rule # id
                            /\ id \in DOMAIN store => store[id].is_active)
    /\ []((pc = "user" /\ ui > Len(rules) /\ failed # {}) =>
            \A j \in 1..Len(rules) :
                rules[j].user \notin failed =>
                    \A k \in 1..Len(rules[j].rules) : rules[j].rules[k].id \in evaluated)
    /\ []((UserDone /\ cur.user \in unfetched) =>
            \A k \in 1..Len(rules[ui - 1].rules) : rules[ui - 1].rules[k].id \in evaluated)

\* C18: Per-rule failure isolation.  When check_rules has gone through the
\* users of a cycle, every rule the cycle loaded for a user whose positions were
\* fetched has been evaluated, whatever happened to the rules before it: a
\* sibling that raised, a sibling that triggered and was exited, or an exit
\* made for another user.
C18_FailureIsolation ==
    (pc = "user" /\ ui > Len(rules)) =>
        \A j \in 1..Len(rules) :
            rules[j].user \notin failed =>
                \A k \in 1..Len(rules[j].rules) : rules[j].rules[k].id \in evaluated

\* C19: Deactivation is independent of the evaluation snapshot.  No step of
\* the evaluation of a rule, the execute_exit calls it makes included, closes
\* or expires the rule objects check_rules loaded for the cycle.
C19_SessionIndependence ==
    [][(pc = "rule" /\ pc' \in {"rule", "user"}) => sess' = sess]_vars

\* C20: The engine never deletes or rewrites rules.  A step of the management
\* thread neither adds nor removes a row, and a row it changes is the row of
\* the rule under evaluation, was active, had a place_order call return in this
\* step, and differs from what it was in is_active alone, now false.
C20_NoRewrite ==
    [][<<pc, ui, ri>>' # <<pc, ui, ri>> =>
          /\ DOMAIN store' = DOMAIN store
          /\ \A id \in DOMAIN store :
                store'[id] # store[id] =>
                    /\ store[id].is_active
                    /\ store'[id] = [store[id] EXCEPT !.is_active = FALSE]
                    /\ pc = "rule"
                    /\ rules[ui].rules[ri].id = id
                    /\ \E i \in 1..Len(NewCalls) :
                          NewCalls[i].rule = id /\ NewCalls[i].outcome = "returns"
      ]_vars

\* C20 witness: a rule was deactivated in this cycle after its order returned,
\* its other fields as loaded, while another rule the cycle loaded is in the
\* table as it was loaded.
C20_Witness ==
    /\ pc \in {"user", "rule"}
    /\ \E id \in DOMAIN store \cap SnapshotIds :
          /\ Returned(orders, id) # {}
          /\ store[id] = [LoadedRule(id) EXCEPT !.is_active = FALSE]
          /\ \E other \in (DOMAIN store \cap SnapshotIds) \ {id} :
                store[other] = LoadedRule(other)

\* C21: Candle-close is inert.  Every place_order call of an evaluation comes
\* from a target or a loss comparison of a rule that has that threshold set,
\* and a row changes only in a step that calls place_order; so the evaluation
\* of a rule of exit_type CANDLE_CLOSE or BOTH with neither threshold set calls
\* place_order for nothing and leaves the rule active, whatever the positions
\* and the quotes.
C21_CandleInert ==
    [][pc = "rule" =>
          LET r == rules[ui].rules[ri]
          IN  /\ \A i \in 1..Len(NewCalls) :
                    \/ NewCalls[i].reason[1] \in TargetReasons /\ IsSet(r.target_profit)
                    \/ NewCalls[i].reason[1] \in LossReasons /\ IsSet(r.max_loss)
              /\ store' # store => NewCalls # <<>>
              /\ (/\ r.exit_type \in {"CANDLE_CLOSE", "BOTH"}
                  /\ ~IsSet(r.target_profit)
                  /\ ~IsSet(r.max_loss)) =>
                    /\ orders' = orders
                    /\ store' = store
                    /\ store'[r.id].is_active
      ]_vars

\* C21 witness: a CANDLE_CLOSE rule without thresholds has been evaluated
\* against a position it matches, a quote for it in the cache: no order, and
\* the rule is active.
C21_Witness ==
    /\ pc = "user"
    /\ ui = 2
    /\ rules[1].rules[1].exit_type = "CANDLE_CLOSE"
    /\ rules[1].rules[1].target_profit = NoneV
    /\ rules[1].rules[1].max_loss = NoneV
    /\ Len(evals) = 1
    /\ evals[1].matched # <<>>
    /\ SymN \in DOMAIN cache
    /\ orders = <<>>
    /\ store[1].is_active

\* The session of the calendar, by hour, minute and second of the day: from
\* 09:15:00 to 15:30:00, both included, Monday (0) to Friday (4)
InSession(now) ==
    LET h == now.second \div 3600
        m == (now.second % 3600) \div 60
        s == now.second % 60
        fromStart == h > 9 \/ (h = 9 /\ m >= 15)
        toEnd == h < 15 \/ (h = 15 /\ m < 30) \/ (h = 15 /\ m = 30 /\ s = 0)
    IN  now.weekday \in 0..4 /\ fromStart /\ toEnd

\* C23: Market calendar.  is_market_open returns true exactly when the instant
\* is on Monday..Friday within 09:15..15:30, both ends included, and true
\* whenever resolving the clock or the timezone raises.
C23_MarketCalendar ==
    pc = "returned" => (market <=> (probe.arg.raises \/ InSession(probe.arg)))

\* C23 witness: Friday 15:30:00 with a working clock was judged open.
C23_Witness ==
    /\ pc = "returned"
    /\ probe.arg = [weekday |-> 4, second |-> SecondOf(15, 30, 0), raises |-> FALSE]
    /\ market

\* C26: The exit order targets the matched position.  Every order carries the
\* symbol and the product of the position it was triggered to close; for a
\* group rule that is the symbol of the matched position, not the prefix.
C26_OrderTargetsPosition ==
    \A i \in 1..Len(orders) :
        /\ orders[i].payload.symbol = orders[i].position.symbol
        /\ orders[i].payload.product = orders[i].position.product

\* C27: The loss trigger is gated by exit_type for every rule.  An order made
\* on the loss comparison, of an individual rule or of a group rule on the
\* aggregate P&L, belongs to a rule whose exit_type is TOTAL_LOSS or BOTH.
C27_LossGatedByExitType ==
    \A i \in 1..Len(orders) :
        orders[i].reason[1] \in LossReasons =>
            LoadedRule(orders[i].rule).exit_type \in {"TOTAL_LOSS", "BOTH"}

\* C25: At most one exit order per position per cycle.  Among the place_order
\* calls of a cycle that returned, no two are for the same position (user,
\* symbol, product), whichever rules of the user made them.
C25_OneExitPerPosition ==
    \A i, j \in 1..Len(orders) :
        (/\ i < j
         /\ orders[i].outcome = "returns"
         /\ orders[j].outcome = "returns"
         /\ LoadedRule(orders[i].rule).user_id = LoadedRule(orders[j].rule).user_id) =>
            \/ orders[i].position.symbol # orders[j].position.symbol
            \/ orders[i].position.product # orders[j].position.product

\* C22: The engine never terminates itself.  Whatever raises (the clock, the
\* poll, a message, the query, the credential lookup and the fetch, the
\* evaluation of a rule, place_order), the thread stays in the loop and the
\* loop begins another iteration again and again.
C22_NeverTerminates ==
    /\ [](pc \in {"top", "poll", "check", "user", "rule"})
    /\ []<><<pc = "top" /\ pc' = "poll">>_vars

\* C22 witness: a place_order call threw in the last cycle; in this iteration
\* the message received did not decode and the query of check_rules raised
\* (the message is still the last received: no rules were loaded); the loop is
\* back at its top.
C22_Witness ==
    /\ pc = "top"
    /\ market
    /\ threw # {}
    /\ Len(got) = 1
    /\ ~got[1].decodes
    /\ \E id \in DOMAIN store : store[id].is_active

\* C24: Loop step structure.  The calendar is sampled at the top of an
\* iteration and nowhere else; the poll takes the head of the pending messages
\* and no more, and nothing else takes a message; an iteration that found the
\* market open goes from the poll to check_rules, with or without a message,
\* and from check_rules to the next iteration, and one that found it closed
\* goes from the poll to the next iteration; and check_rules is entered every
\* time the market was found open, however many messages are pending.
C24_LoopStep ==
    /\ [][/\ market' # market => (pc = "top" /\ pc' = "poll")
          /\ (pc = "top" /\ pc' # "top") => pc' = "poll"
          /\ (pc = "poll" /\ pc' # "poll") =>
                /\ feed' = IF feed = <<>> THEN feed ELSE Tail(feed)
                /\ pc' = IF market THEN "check" ELSE "top"
          /\ feed' # feed /\ Len(feed') <= Len(feed) => (pc = "poll" /\ pc' # "poll")
          /\ (pc = "check" /\ pc' # "check") => pc' = "user"
          /\ (pc' = "check" /\ pc # "check") => (pc = "poll" /\ market)
          /\ (pc' = "top" /\ pc # "top") => (pc = "poll" /\ ~market) \/ (pc = "user" /\ market)
         ]_vars
    /\ (pc = "poll" /\ market) ~> (pc = "user")
    /\ (pc = "user") ~> (pc = "top")

\* C24 witness: the poll of an open iteration took one of two pending
\* messages, the other is still pending, and check_rules is about to run.
C24_Witness ==
    /\ pc = "check"
    /\ market
    /\ Len(got) = 1
    /\ feed # <<>>

\* C28: Eventual exit.  With the market open, the rule not deleted, its
\* position in profit beyond its target at every fetch and the calls made for
\* it succeeding, the rule followed, while active, leads to a place_order call
\* for it that returned and to its row being inactive, whatever the other
\* rules, the other users and the feed do.
C28_EventualExit ==
    store[TargetRule].is_active ~>
        (/\ ~store[TargetRule].is_active
         /\ okCount[TargetRule] >= 1)

\* C28 witness: the rule followed has been exited and deactivated after a
\* rule ahead of it in the table was, a message having been applied.
C28_Witness ==
    /\ ~store[TargetRule].is_active
    /\ okCount[TargetRule] >= 1
    /\ \E id \in DOMAIN store \ {TargetRule} : ~store[id].is_active /\ okCount[id] >= 1
    /\ Returned(orders, TargetRule) # {}
    /\ SymN \in DOMAIN cache

====
